---- MODULE Spec2Model ----
(***************************************************************************)
(* Model of lib/spectron-support.js: the scenario commands that            *)
(* addCommands registers on the webdriverIO client.                        *)
(*                                                                         *)
(* Every promise of one command invocation is a node of `nodes`.  A node   *)
(* is either a primitive of the client (setValue, click, waitUntil, ...)   *)
(* or a call of a registered command, which appends the promises its body  *)
(* builds and adopts the outcome of the promise it returns.                *)
(***************************************************************************)
EXTENDS Integers, Sequences, FiniteSets, TLC

VARIABLES nodes, log, handles, current, nextHandle,
          connectHandle, newWindowHandle, elapsed, polls, everTrue,
          apps, pc, yielded, callLog, stopCalls, stopArg,
          present, shown, optin, waited, observed, lastText

vars == <<nodes, log, handles, current, nextHandle,
          connectHandle, newWindowHandle, elapsed, polls, everTrue,
          apps, pc, yielded, callLog, stopCalls, stopArg,
          present, shown, optin, waited, observed, lastText>>

windowVars == <<handles, current, nextHandle>>
waitVars == <<connectHandle, newWindowHandle, elapsed, polls, everTrue>>
appVars == <<apps, pc, yielded, callLog, stopCalls, stopArg>>
uiVars == <<present, shown, optin, waited, observed, lastText>>
commandVars == <<nodes, log, windowVars, waitVars, uiVars>>

(***************************************************************************)
(* Bounds of the model.                                                    *)
(***************************************************************************)
\* window handles the application creates in one behaviour
MaxHandles == 3
\* largest window index waitForWindow is invoked with
MaxIndex == 2

(***************************************************************************)
(* JavaScript values: undefined, numbers, strings and booleans.            *)
(***************************************************************************)
Undef == [type |-> "undefined", num |-> 0, str |-> ""]
Bool(b) == [type |-> "boolean", num |-> IF b THEN 1 ELSE 0, str |-> ""]
Num(n) == [type |-> "number", num |-> n, str |-> ""]
Str(s) == [type |-> "string", num |-> 0, str |-> s]

\* the test `if (model[field])` with the present/absent test in place of
\* JavaScript truthiness
Truthy_present(v) == v.type # "undefined"

\* ToBoolean, as applied by `if (model[field])`
Truthy(v) ==
  CASE v.type = "undefined" -> FALSE
    [] v.type = "number" -> v.num # 0
    [] v.type = "string" -> v.str # ""
    [] v.type = "boolean" -> v.num = 1

\* x || d
OrDefault(x, d) == IF x = 0 THEN d ELSE x

\* waitForWindow: ms = ms || 20000
DefaultMs == 20000
\* waitForWindow: interval = interval || 1000
DefaultInterval == 1000
\* gotoSchemaWindow: port: 27017
DefaultPort == 27017
\* gotoSchemaWindow: hostname: 'localhost'
DefaultHostname == "localhost"

(***************************************************************************)
(* Connection models.                                                      *)
(***************************************************************************)
\* staticFields with port and hostname exchanged
staticFields_swapped == <<"port", "hostname", "name">>

staticFields == <<"hostname", "port", "name">>

sslFields == <<"ssl_ca", "ssl_certificate", "ssl_private_key",
               "ssl_private_key_password">>

\* Connection.getFieldNames(authentication): the dependent fields of an
\* authentication kind
getFieldNames(authentication) ==
  IF authentication = Str("MONGODB")
    THEN <<"mongodb_username", "mongodb_password">>
    ELSE <<>>

\* whether the module binds the identifier `Connection`
ConnectionBound == FALSE

Range(s) == {s[k] : k \in 1..Len(s)}

Fields == Range(staticFields) \cup {"authentication", "ssl"}
            \cup Range(getFieldNames(Str("MONGODB"))) \cup Range(sslFields)

EmptyModel == [f \in Fields |-> Undef]

\* the values each field of a connection model is drawn from
FieldValues(f) ==
  CASE f = "hostname" -> {Undef, Str(""), Str("example.com")}
    [] f = "port" -> {Undef, Num(0), Num(27018)}
    [] f = "name" -> {Undef, Str("n")}
    [] f = "authentication" -> {Undef, Str("NONE"), Str("MONGODB")}
    [] f = "mongodb_username" -> {Undef, Str("u")}
    [] f = "mongodb_password" -> {Undef}
    [] f = "ssl" -> {Undef, Str("NONE"), Str("SERVER")}
    [] OTHER -> {Undef, Str("pem")}

\* a connection model: field name -> value, undefined where the key is absent
Model(hostname, port, name, authentication, username, ssl, ca, cert, key, pw) ==
  [f \in Fields |->
     CASE f = "hostname" -> hostname
       [] f = "port" -> port
       [] f = "name" -> name
       [] f = "authentication" -> authentication
       [] f = "mongodb_username" -> username
       [] f = "ssl" -> ssl
       [] f = "ssl_ca" -> ca
       [] f = "ssl_certificate" -> cert
       [] f = "ssl_private_key" -> key
       [] f = "ssl_private_key_password" -> pw
       [] OTHER -> Undef]

\* the models fillOutForm is invoked with
Models ==
  {Model(h, p, n, a, u, s, c1, c2, c3, c4) :
     h \in FieldValues("hostname"), p \in FieldValues("port"),
     n \in FieldValues("name"), a \in FieldValues("authentication"),
     u \in FieldValues("mongodb_username"), s \in FieldValues("ssl"),
     c1 \in FieldValues("ssl_ca"), c2 \in FieldValues("ssl_certificate"),
     c3 \in FieldValues("ssl_private_key"),
     c4 \in FieldValues("ssl_private_key_password")}

(***************************************************************************)
(* Selectors.                                                              *)
(***************************************************************************)
\* format('input[name=%s]', field)
InputSelector(field) == "input[name=" \o field \o "]"

AuthSelect == "select[name=authentication]"
SslSelect == "select[name=ssl]"

(***************************************************************************)
(* Promises.                                                               *)
(***************************************************************************)
NoError == [name |-> "none", node |-> 0]
Error(name, i) == [name |-> name, node |-> i]

NoArg ==
  [model |-> EmptyModel, index |-> 0, ms |-> 0, interval |-> 0,
   name |-> Undef, internal |-> Undef, timeout |-> Undef, reverse |-> Undef]

Step(op, target, value) ==
  [op |-> op, target |-> target, value |-> value, arg |-> NoArg]

CallStep(op, arg) ==
  [op |-> op, target |-> "", value |-> Undef, arg |-> arg]

Node(step, after) ==
  [op |-> step.op, target |-> step.target, value |-> step.value,
   arg |-> step.arg, after |-> after,
   state |-> "waiting", error |-> NoError, adopt |-> 0]

\* every step started at once instead of chained on its predecessor
SequenceNodes_unchained(steps, base) ==
  [k \in 1..Len(steps) |-> Node(steps[k], 0)]

\* sequence = sequence.then(...): the first step follows a resolved promise,
\* every later step follows the step before it
SequenceNodes(steps, base) ==
  [k \in 1..Len(steps) |-> Node(steps[k], IF k = 1 THEN 0 ELSE base + k - 1)]

Primitives == {"setValue", "selectByValue", "click", "waitForVisible",
               "waitForExist", "windowHandle", "waitUntil", "windowByIndex"}

RECURSIVE Outcome(_)
\* the state a promise is in: a called command adopts the promise its body
\* returned, and a promise chained on a rejected one is rejected with the
\* same error without running
Outcome(i) ==
  LET n == nodes[i] IN
  IF n.state = "called" THEN Outcome(n.adopt)
  ELSE IF n.state = "waiting" /\ n.after # 0
          /\ Outcome(n.after).state = "failed"
    THEN Outcome(n.after)
  ELSE [state |-> n.state, error |-> n.error]

\* the callback of node i may run
Ready(i) ==
  /\ nodes[i].state = "waiting"
  /\ nodes[i].after # 0 => Outcome(nodes[i].after).state = "resolved"

\* the body of a command returned: its promises are appended, and the call
\* adopts the last of them, or fails with what the body threw
Called(i, steps, thrown) ==
  LET base == Len(nodes)
      subs == SequenceNodes(steps, base)
  IN  nodes' = [nodes EXCEPT
                  ![i].state = IF thrown # NoError THEN "failed"
                               ELSE IF subs = <<>> THEN "resolved"
                               ELSE "called",
                  ![i].error = thrown,
                  ![i].adopt = IF thrown # NoError \/ subs = <<>> THEN 0
                               ELSE base + Len(subs)] \o subs

(***************************************************************************)
(* fillOutForm                                                             *)
(***************************************************************************)
\* model.ssl alone, without the comparison with 'NONE'
SslSelected_noSentinel(model) == Truthy(model["ssl"])

\* model.authentication && model.authentication !== 'NONE'
AuthSelected(model) ==
  Truthy(model["authentication"]) /\ model["authentication"] # Str("NONE")

\* model.ssl && model.ssl !== 'NONE'
SslSelected(model) == Truthy(model["ssl"]) /\ model["ssl"] # Str("NONE")

\* _.each(fields, ...): one setValue step for each field whose value is truthy
FieldSteps(model, fields) ==
  LET sel == SelectSeq(fields, LAMBDA f : Truthy(model[f]))
  IN  [k \in 1..Len(sel) |->
         Step("setValue", InputSelector(sel[k]), model[sel[k]])]

\* the body of fillOutForm: the steps chained on `sequence`, and what the
\* body throws
FillOutForm(model) ==
  LET static == FieldSteps(model, staticFields)
      authSelect == <<Step("selectByValue", AuthSelect,
                           model["authentication"])>>
      ssl == IF SslSelected(model)
               THEN <<Step("selectByValue", SslSelect, model["ssl"])>>
                      \o FieldSteps(model, sslFields)
               ELSE <<>>
  IN  IF ~AuthSelected(model)
        THEN [steps |-> static \o ssl, thrown |-> NoError]
      ELSE IF ~ConnectionBound
        THEN [steps |-> static \o authSelect,
              thrown |-> [name |-> "ReferenceError", node |-> 0]]
      ELSE [steps |-> static \o authSelect
                        \o FieldSteps(model,
                                      getFieldNames(model["authentication"]))
                        \o ssl,
            thrown |-> NoError]

(***************************************************************************)
(* Initial state: the application shows its connect window and no command  *)
(* has been invoked.                                                       *)
(***************************************************************************)
Init ==
  /\ nodes = <<>>
  /\ log = <<>>
  /\ handles = <<1>>
  /\ current = 1
  /\ nextHandle = 2
  /\ connectHandle = 0
  /\ newWindowHandle = 0
  /\ elapsed = 0
  /\ polls = 0
  /\ everTrue = FALSE
  /\ apps = <<>>
  /\ pc = "idle"
  /\ yielded = <<>>
  /\ callLog = <<>>
  /\ stopCalls = 0
  /\ stopArg = [app |-> 0, running |-> FALSE]
  /\ present = {}
  /\ shown = {}
  /\ optin = "Welcome"
  /\ waited = 0
  /\ observed = <<>>
  /\ lastText = "none"

\* client.fillOutForm(model)
InvokeFillOutForm ==
  /\ nodes = <<>>
  /\ \E model \in Models :
       nodes' = <<Node(CallStep("fillOutForm",
                                [NoArg EXCEPT !.model = model]), 0)>>
  /\ UNCHANGED <<log, windowVars, waitVars, appVars, uiVars>>

\* the registered body of fillOutForm runs
CallFillOutForm ==
  \E i \in 1..Len(nodes) :
    /\ Ready(i)
    /\ nodes[i].op = "fillOutForm"
    /\ LET r == FillOutForm(nodes[i].arg.model)
       IN  Called(i, r.steps,
                  IF r.thrown = NoError THEN NoError
                  ELSE Error(r.thrown.name, i))
    /\ UNCHANGED <<log, windowVars, waitVars, appVars, uiVars>>

\* the callback of a chained step runs and issues its primitive
IssuePrimitive ==
  \E i \in 1..Len(nodes) :
    /\ Ready(i)
    /\ nodes[i].op \in Primitives
    /\ nodes' = [nodes EXCEPT ![i].state = "inflight"]
    /\ log' = Append(log, i)
    /\ waited' = 0
    /\ UNCHANGED <<windowVars, waitVars, appVars,
                   present, shown, optin, observed, lastText>>

\* the client reports that a primitive succeeded
ResolvePrimitive ==
  \E i \in 1..Len(nodes) :
    /\ nodes[i].state = "inflight"
    /\ nodes[i].op \in {"setValue", "selectByValue", "click"}
    /\ nodes' = [nodes EXCEPT ![i].state = "resolved"]
    /\ UNCHANGED <<log, windowVars, waitVars, appVars, uiVars>>

\* the client reports that a primitive failed
FailPrimitive ==
  \E i \in 1..Len(nodes) :
    /\ nodes[i].state = "inflight"
    /\ nodes[i].op # "waitUntil"
    /\ nodes' = [nodes EXCEPT ![i].state = "failed",
                              ![i].error = Error("OperationError", i)]
    /\ UNCHANGED <<log, windowVars, waitVars, appVars, uiVars>>

(***************************************************************************)
(* The elements of the page, and the client's waits for them.              *)
(***************************************************************************)
\* the timeout the client applies to a wait that names none
WaitforTimeout == 1000
\* the time between two polls of a wait
WaitforInterval == 1000

ElementWaits == {"waitForVisible", "waitForExist"}

StatusBar == "statusbar"

\* the element a selector finds: both spellings of the status bar find the
\* same element
Element(selector) ==
  IF selector \in {"#statusbar", "div#statusbar"} THEN StatusBar ELSE selector

\* waitForVisible(selector, ms, reverse): a timeout that is not a number is
\* replaced by the client's default
WaitTimeout(arg) ==
  IF arg.timeout.type = "number" THEN arg.timeout.num ELSE WaitforTimeout

\* waitForVisible(selector, ms, reverse): reverse counts only as a boolean
WaitReverse(arg) == arg.reverse = Bool(TRUE)

\* a wait with its timeout and reverse arguments
WaitStep(op, target, timeout, reverse) ==
  [op |-> op, target |-> target, value |-> Undef,
   arg |-> [NoArg EXCEPT !.timeout = timeout, !.reverse = reverse]]

\* what a poll of the wait finds on the page
Found(op, selector) ==
  IF op = "waitForExist" THEN Element(selector) \in present
  ELSE Element(selector) \in shown

\* the elements some wait of the invocation has still to look at
PendingElements ==
  {Element(nodes[i].target) :
     i \in {j \in 1..Len(nodes) :
              /\ nodes[j].op \in ElementWaits
              /\ Outcome(j).state \in {"waiting", "inflight"}}}

\* the application adds, shows, hides or removes an element
UiChange ==
  /\ \E e \in PendingElements, to \in {"absent", "hidden", "visible"} :
       /\ present' = IF to = "absent" THEN present \ {e} ELSE present \cup {e}
       /\ shown' = IF to = "visible" THEN shown \cup {e} ELSE shown \ {e}
       /\ <<present', shown'>> # <<present, shown>>
  /\ UNCHANGED <<nodes, log, windowVars, waitVars, appVars,
                 optin, waited, observed, lastText>>

\* a wait looks at the page: it resolves when it finds what it waits for,
\* and otherwise looks again one interval later
PollElement ==
  \E i \in 1..Len(nodes) :
    /\ nodes[i].state = "inflight"
    /\ nodes[i].op \in ElementWaits
    /\ waited <= WaitTimeout(nodes[i].arg)
    /\ LET found == Found(nodes[i].op, nodes[i].target)
       IN  IF found # WaitReverse(nodes[i].arg)
             THEN /\ nodes' = [nodes EXCEPT ![i].state = "resolved"]
                  /\ observed' = Append(observed,
                                        [node |-> i, found |-> found,
                                         at |-> waited])
                  /\ UNCHANGED waited
             ELSE /\ waited' = waited + WaitforInterval
                  /\ UNCHANGED <<nodes, observed>>
    /\ UNCHANGED <<log, windowVars, waitVars, appVars,
                   present, shown, optin, lastText>>

\* a wait gives up once its timeout has passed
TimeoutElement ==
  \E i \in 1..Len(nodes) :
    /\ nodes[i].state = "inflight"
    /\ nodes[i].op \in ElementWaits
    /\ waited > WaitTimeout(nodes[i].arg)
    /\ nodes' = [nodes EXCEPT ![i].state = "failed",
                              ![i].error = Error("Timeout", i)]
    /\ UNCHANGED <<log, windowVars, waitVars, appVars, uiVars>>

(***************************************************************************)
(* The windows of the application.                                         *)
(***************************************************************************)
UndefinedHandle == 0

\* handles[index] of a JavaScript array: undefined past the end
HandleAt(hs, index) ==
  IF index < Len(hs) THEN hs[index + 1] ELSE UndefinedHandle

RemoveAt(hs, k) == [j \in 1..(Len(hs) - 1) |-> IF j < k THEN hs[j] ELSE hs[j + 1]]

\* the application opens a window: its handle is appended to the handle list
OpenWindow ==
  /\ nextHandle <= MaxHandles
  /\ handles' = Append(handles, nextHandle)
  /\ nextHandle' = nextHandle + 1
  /\ UNCHANGED <<nodes, log, current, waitVars, appVars, uiVars>>

\* the application closes a window: later handles move one slot down
CloseWindow ==
  /\ \E k \in 1..Len(handles) : handles' = RemoveAt(handles, k)
  /\ UNCHANGED <<nodes, log, current, nextHandle, waitVars, appVars, uiVars>>

(***************************************************************************)
(* waitForWindow                                                           *)
(***************************************************************************)
\* the timeouts and intervals the commands are invoked with; 0 is undefined
MsValues == {0, 2000, 3000}
IntervalValues == {0, 1000, 2000}

\* the predicate with the comparison inverted
WindowPredicate_equal(hs, index, connect) == HandleAt(hs, index) = connect

\* newWindowHandle = handles[index]; return newWindowHandle !== connectHandle
WindowPredicate(hs, index, connect) == HandleAt(hs, index) # connect

\* the body of waitForWindow with windowByIndex not chained on the wait
WaitForWindow_early(index, ms, interval) ==
  LET arg == [NoArg EXCEPT !.index = index,
                           !.ms = OrDefault(ms, DefaultMs),
                           !.interval = OrDefault(interval, DefaultInterval)]
  IN  << CallStep("windowHandle", NoArg),
         CallStep("windowByIndex", arg),
         CallStep("waitUntil", arg) >>

\* the body of waitForWindow: read the focused handle, poll, then switch
WaitForWindow(index, ms, interval) ==
  LET arg == [NoArg EXCEPT !.index = index,
                           !.ms = OrDefault(ms, DefaultMs),
                           !.interval = OrDefault(interval, DefaultInterval)]
  IN  << CallStep("windowHandle", NoArg),
         CallStep("waitUntil", arg),
         CallStep("windowByIndex", arg) >>

\* client.waitForWindow(index, ms, interval)
InvokeWaitForWindow ==
  /\ nodes = <<>>
  /\ \E index \in 0..MaxIndex, ms \in MsValues, interval \in IntervalValues :
       nodes' = <<Node(CallStep("waitForWindow",
                                [NoArg EXCEPT !.index = index, !.ms = ms,
                                              !.interval = interval]), 0)>>
  /\ UNCHANGED <<log, windowVars, waitVars, appVars, uiVars>>

\* the registered body of waitForWindow runs
CallWaitForWindow ==
  \E i \in 1..Len(nodes) :
    /\ Ready(i)
    /\ nodes[i].op = "waitForWindow"
    /\ Called(i, WaitForWindow(nodes[i].arg.index, nodes[i].arg.ms,
                               nodes[i].arg.interval), NoError)
    /\ UNCHANGED <<log, windowVars, waitVars, appVars, uiVars>>

\* windowHandle() answers with the handle of the focused window
ResolveWindowHandle ==
  \E i \in 1..Len(nodes) :
    /\ nodes[i].state = "inflight"
    /\ nodes[i].op = "windowHandle"
    /\ nodes' = [nodes EXCEPT ![i].state = "resolved"]
    /\ connectHandle' = current
    /\ UNCHANGED <<log, windowVars, newWindowHandle, elapsed, polls, everTrue, appVars, uiVars>>

\* waitUntil evaluates the predicate: it resolves when the predicate yields
\* true, and otherwise tries again one interval later
Poll ==
  \E i \in 1..Len(nodes) :
    /\ nodes[i].state = "inflight"
    /\ nodes[i].op = "waitUntil"
    /\ elapsed <= nodes[i].arg.ms
    /\ newWindowHandle' = HandleAt(handles, nodes[i].arg.index)
    /\ polls' = polls + 1
    /\ IF WindowPredicate(handles, nodes[i].arg.index, connectHandle)
         THEN /\ nodes' = [nodes EXCEPT ![i].state = "resolved"]
              /\ everTrue' = TRUE
              /\ UNCHANGED elapsed
         ELSE /\ elapsed' = elapsed + nodes[i].arg.interval
              /\ UNCHANGED <<nodes, everTrue>>
    /\ UNCHANGED <<log, windowVars, connectHandle, appVars, uiVars>>

\* waitUntil giving up without regard to the time that has passed
Timeout_early ==
  \E i \in 1..Len(nodes) :
    /\ nodes[i].state = "inflight"
    /\ nodes[i].op = "waitUntil"
    /\ nodes' = [nodes EXCEPT ![i].state = "failed",
                              ![i].error = Error("Timeout", i)]
    /\ UNCHANGED <<log, windowVars, waitVars, appVars, uiVars>>

\* waitUntil gives up once the timeout has passed
Timeout ==
  \E i \in 1..Len(nodes) :
    /\ nodes[i].state = "inflight"
    /\ nodes[i].op = "waitUntil"
    /\ elapsed > nodes[i].arg.ms
    /\ nodes' = [nodes EXCEPT ![i].state = "failed",
                              ![i].error = Error("Timeout", i)]
    /\ UNCHANGED <<log, windowVars, waitVars, appVars, uiVars>>

\* windowByIndex(index) focuses the window at that slot of the handle list
ResolveWindowByIndex ==
  \E i \in 1..Len(nodes) :
    /\ nodes[i].state = "inflight"
    /\ nodes[i].op = "windowByIndex"
    /\ IF nodes[i].arg.index < Len(handles)
         THEN /\ nodes' = [nodes EXCEPT ![i].state = "resolved"]
              /\ current' = handles[nodes[i].arg.index + 1]
         ELSE /\ nodes' = [nodes EXCEPT ![i].state = "failed",
                                        ![i].error = Error("NoSuchWindow", i)]
              /\ UNCHANGED current
    /\ UNCHANGED <<log, handles, nextHandle, waitVars, appVars, uiVars>>

WindowNext ==
  \/ InvokeWaitForWindow
  \/ CallWaitForWindow
  \/ IssuePrimitive
  \/ ResolveWindowHandle
  \/ Poll
  \/ Timeout
  \/ ResolveWindowByIndex
  \/ FailPrimitive
  \/ OpenWindow
  \/ CloseWindow

SpecWindow == Init /\ [][WindowNext]_vars

(***************************************************************************)
(* clickConnect, waitForSchemaWindow, gotoSchemaWindow                     *)
(***************************************************************************)
ConnectButton == "button[name=connect]"

\* the body of clickConnect
ClickConnect == << Step("click", ConnectButton, Undef) >>

\* the body of waitForSchemaWindow: this.waitForWindow(0, ms, interval)
WaitForSchemaWindow(ms, interval) ==
  << CallStep("waitForWindow",
              [NoArg EXCEPT !.index = 0, !.ms = ms, !.interval = interval]) >>

\* defaults applied with `||`, to every key whose value is falsy
Defaults_falsy(connection) ==
  [f \in Fields |->
     IF Truthy(connection[f]) THEN connection[f]
     ELSE IF f = "hostname" THEN Str(DefaultHostname)
     ELSE IF f = "port" THEN Num(DefaultPort)
     ELSE connection[f]]

\* _.defaults(connection || {}, {hostname: 'localhost', port: 27017})
Defaults(connection) ==
  [f \in Fields |->
     IF connection[f] # Undef THEN connection[f]
     ELSE IF f = "hostname" THEN Str(DefaultHostname)
     ELSE IF f = "port" THEN Num(DefaultPort)
     ELSE Undef]

\* the body of gotoSchemaWindow
GotoSchemaWindow(connection, ms) ==
  << Step("waitForVisible", AuthSelect, Undef),
     CallStep("fillOutForm", [NoArg EXCEPT !.model = Defaults(connection)]),
     CallStep("clickConnect", NoArg),
     CallStep("waitForSchemaWindow", [NoArg EXCEPT !.ms = ms]) >>

\* the connections gotoSchemaWindow is invoked with
Connections ==
  {Model(h, p, Undef, a, Undef, s, c1, Undef, Undef, Undef) :
     h \in FieldValues("hostname"), p \in FieldValues("port"),
     a \in {Undef, Str("MONGODB")}, s \in {Undef, Str("SERVER")},
     c1 \in FieldValues("ssl_ca")}

\* client.gotoSchemaWindow(connection, ms)
InvokeGotoSchemaWindow ==
  /\ nodes = <<>>
  /\ \E connection \in Connections, ms \in MsValues :
       nodes' = <<Node(CallStep("gotoSchemaWindow",
                                [NoArg EXCEPT !.model = connection,
                                              !.ms = ms]), 0)>>
  /\ UNCHANGED <<log, windowVars, waitVars, appVars, uiVars>>

\* the registered body of gotoSchemaWindow runs
CallGotoSchemaWindow ==
  \E i \in 1..Len(nodes) :
    /\ Ready(i)
    /\ nodes[i].op = "gotoSchemaWindow"
    /\ Called(i, GotoSchemaWindow(nodes[i].arg.model, nodes[i].arg.ms),
              NoError)
    /\ UNCHANGED <<log, windowVars, waitVars, appVars, uiVars>>

\* the registered body of clickConnect runs
CallClickConnect ==
  \E i \in 1..Len(nodes) :
    /\ Ready(i)
    /\ nodes[i].op = "clickConnect"
    /\ Called(i, ClickConnect, NoError)
    /\ UNCHANGED <<log, windowVars, waitVars, appVars, uiVars>>

\* the registered body of waitForSchemaWindow runs
CallWaitForSchemaWindow ==
  \E i \in 1..Len(nodes) :
    /\ Ready(i)
    /\ nodes[i].op = "waitForSchemaWindow"
    /\ Called(i, WaitForSchemaWindow(nodes[i].arg.ms, nodes[i].arg.interval),
              NoError)
    /\ UNCHANGED <<log, windowVars, waitVars, appVars, uiVars>>

GotoNext ==
  \/ UiChange
  \/ PollElement
  \/ TimeoutElement
  \/ InvokeGotoSchemaWindow
  \/ CallGotoSchemaWindow
  \/ CallFillOutForm
  \/ CallClickConnect
  \/ CallWaitForSchemaWindow
  \/ CallWaitForWindow
  \/ IssuePrimitive
  \/ ResolvePrimitive
  \/ ResolveWindowHandle
  \/ Poll
  \/ Timeout
  \/ ResolveWindowByIndex
  \/ FailPrimitive
  \/ OpenWindow
  \/ CloseWindow

SpecGoto == Init /\ [][GotoNext]_vars

FormNext ==
  \/ InvokeFillOutForm
  \/ CallFillOutForm
  \/ IssuePrimitive
  \/ ResolvePrimitive
  \/ FailPrimitive

SpecForm == Init /\ [][FormNext]_vars

(***************************************************************************)
(* The scenario commands of the schema window.                             *)
(***************************************************************************)
\* x || d on JavaScript values
Or(x, d) == IF Truthy(x) THEN x ELSE d

\* sampleCollection: ms = ms || 10000
DefaultSampleMs == 10000
\* waitForStatusBar: waitForVisible('div#statusbar', 15000, true)
StatusBarMs == 15000

InternalSuffix == " (internal collection)"

\* format('.sidebar .list-group-item span[title="%s"]', collectionName)
SidebarItem(title) ==
  ".sidebar .list-group-item span[title=\"" \o title \o "\"]"

\* 'a span[title="' + name + '"]'
CollectionLink(name) == "a span[title=\"" \o name \o "\"]"

OptInContainer == "div[data-hook=optin-container]"
TourCloseButton == "button.tour-close-button"
StartButton == "button[data-hook=start-button]"

\* the wait of waitForStatusBar without its reverse flag
WaitForStatusBar_visible ==
  << WaitStep("waitForVisible", "div#statusbar", Num(StatusBarMs), Undef) >>

\* the body of waitForStatusBar
WaitForStatusBar ==
  << WaitStep("waitForVisible", "div#statusbar", Num(StatusBarMs),
              Bool(TRUE)) >>

\* the body of selectCollection
SelectCollection(name) ==
  << CallStep("waitForStatusBar", NoArg),
     Step("waitForVisible", CollectionLink(name), Undef),
     Step("click", CollectionLink(name), Undef),
     Step("waitForVisible", "div.schema-field-list", Undef) >>

\* the body of viewSampleDocuments
ViewSampleDocuments ==
  << CallStep("waitForStatusBar", NoArg),
     Step("click", "#view_sample", Undef),
     Step("waitForVisible", "div#sample_documents", Undef) >>

\* the body of refineSample
RefineSample(query) ==
  << CallStep("waitForStatusBar", NoArg),
     Step("setValue", "input#refine_input", query),
     Step("click", "button#apply_button", Undef) >>

\* the body of resetSample
ResetSample ==
  << CallStep("waitForStatusBar", NoArg),
     Step("click", "button#reset_button", Undef) >>

\* the selector built from the bare name, whatever `internal` is
SampleSelector_bare(collectionName, internal) == SidebarItem(collectionName)

\* if (internal) collectionName += ' (internal collection)', and the
\* selector formatted from the name
SampleSelector(collectionName, internal) ==
  SidebarItem(IF Truthy(internal) THEN collectionName \o InternalSuffix
              ELSE collectionName)

\* the body of sampleCollection with the last wait not reversed
SampleCollection_noReverse(collectionName, internal, ms) ==
  LET timeout == Or(ms, Num(DefaultSampleMs))
      selector == SampleSelector(collectionName, internal)
  IN  << WaitStep("waitForExist", selector, timeout, Undef),
         Step("click", selector, Undef),
         WaitStep("waitForVisible", "#statusbar", timeout, Undef),
         WaitStep("waitForVisible", "#statusbar", timeout, Undef) >>

\* the body of sampleCollection
SampleCollection(collectionName, internal, ms) ==
  LET timeout == Or(ms, Num(DefaultSampleMs))
      selector == SampleSelector(collectionName, internal)
  IN  << WaitStep("waitForExist", selector, timeout, Undef),
         Step("click", selector, Undef),
         WaitStep("waitForVisible", "#statusbar", timeout, Undef),
         WaitStep("waitForVisible", "#statusbar", timeout, Bool(TRUE)) >>

\* text.length === 0
OptInPredicate(text) == Len(text) = 0

\* the body of startUsingCompass; the fifth step passes `true` where
\* waitForVisible takes its timeout
StartUsingCompass ==
  << Step("waitForVisible", TourCloseButton, Undef),
     Step("click", TourCloseButton, Undef),
     Step("waitForVisible", StartButton, Undef),
     Step("click", StartButton, Undef),
     WaitStep("waitForVisible", StartButton, Bool(TRUE), Undef),
     Step("waitUntil", OptInContainer, Undef) >>

\* the collections, flags and timeouts the commands are invoked with
CollectionNames == {"db.coll", "local.startup_log"}
InternalValues == {Undef, Bool(FALSE), Bool(TRUE)}
SampleMsValues == {Undef, Num(5000)}
Queries == {Str("{a: 1}")}

ScenarioCalls ==
  {CallStep("sampleCollection",
            [NoArg EXCEPT !.name = Str(n), !.internal = i, !.timeout = t]) :
     n \in CollectionNames, i \in InternalValues, t \in SampleMsValues}
  \cup {CallStep("selectCollection", [NoArg EXCEPT !.name = Str(n)]) :
          n \in CollectionNames}
  \cup {CallStep("refineSample", [NoArg EXCEPT !.name = q]) : q \in Queries}
  \cup {CallStep(c, NoArg) :
          c \in {"viewSampleDocuments", "resetSample", "startUsingCompass",
                 "waitForStatusBar"}}

\* the test invokes one of the commands on the client
InvokeScenario ==
  /\ nodes = <<>>
  /\ \E call \in ScenarioCalls : nodes' = <<Node(call, 0)>>
  /\ UNCHANGED <<log, windowVars, waitVars, appVars, uiVars>>

CallWaitForStatusBar ==
  \E i \in 1..Len(nodes) :
    /\ Ready(i)
    /\ nodes[i].op = "waitForStatusBar"
    /\ Called(i, WaitForStatusBar, NoError)
    /\ UNCHANGED <<log, windowVars, waitVars, appVars, uiVars>>

CallSelectCollection ==
  \E i \in 1..Len(nodes) :
    /\ Ready(i)
    /\ nodes[i].op = "selectCollection"
    /\ Called(i, SelectCollection(nodes[i].arg.name.str), NoError)
    /\ UNCHANGED <<log, windowVars, waitVars, appVars, uiVars>>

CallViewSampleDocuments ==
  \E i \in 1..Len(nodes) :
    /\ Ready(i)
    /\ nodes[i].op = "viewSampleDocuments"
    /\ Called(i, ViewSampleDocuments, NoError)
    /\ UNCHANGED <<log, windowVars, waitVars, appVars, uiVars>>

CallRefineSample ==
  \E i \in 1..Len(nodes) :
    /\ Ready(i)
    /\ nodes[i].op = "refineSample"
    /\ Called(i, RefineSample(nodes[i].arg.name), NoError)
    /\ UNCHANGED <<log, windowVars, waitVars, appVars, uiVars>>

CallResetSample ==
  \E i \in 1..Len(nodes) :
    /\ Ready(i)
    /\ nodes[i].op = "resetSample"
    /\ Called(i, ResetSample, NoError)
    /\ UNCHANGED <<log, windowVars, waitVars, appVars, uiVars>>

CallSampleCollection ==
  \E i \in 1..Len(nodes) :
    /\ Ready(i)
    /\ nodes[i].op = "sampleCollection"
    /\ Called(i, SampleCollection(nodes[i].arg.name.str,
                                  nodes[i].arg.internal,
                                  nodes[i].arg.timeout), NoError)
    /\ UNCHANGED <<log, windowVars, waitVars, appVars, uiVars>>

CallStartUsingCompass ==
  \E i \in 1..Len(nodes) :
    /\ Ready(i)
    /\ nodes[i].op = "startUsingCompass"
    /\ Called(i, StartUsingCompass, NoError)
    /\ UNCHANGED <<log, windowVars, waitVars, appVars, uiVars>>

\* the opt-in dialog fades out, or comes back
OptInChange ==
  /\ \E i \in 1..Len(nodes) :
       /\ nodes[i].op = "waitUntil"
       /\ nodes[i].target = OptInContainer
       /\ Outcome(i).state \in {"waiting", "inflight"}
  /\ optin' = IF optin = "" THEN "Welcome" ELSE ""
  /\ UNCHANGED <<nodes, log, windowVars, waitVars, appVars,
                 present, shown, waited, observed, lastText>>

\* waitUntil reads the text of the opt-in container and evaluates the
\* predicate on it
PollText ==
  \E i \in 1..Len(nodes) :
    /\ nodes[i].state = "inflight"
    /\ nodes[i].op = "waitUntil"
    /\ nodes[i].target = OptInContainer
    /\ elapsed <= WaitforTimeout
    /\ lastText' = optin
    /\ polls' = polls + 1
    /\ IF OptInPredicate(optin)
         THEN /\ nodes' = [nodes EXCEPT ![i].state = "resolved"]
              /\ everTrue' = TRUE
              /\ UNCHANGED elapsed
         ELSE /\ elapsed' = elapsed + WaitforInterval
              /\ UNCHANGED <<nodes, everTrue>>
    /\ UNCHANGED <<log, windowVars, connectHandle, newWindowHandle, appVars,
                   present, shown, optin, waited, observed>>

\* waitUntil gives up once the client's timeout has passed
TimeoutText ==
  \E i \in 1..Len(nodes) :
    /\ nodes[i].state = "inflight"
    /\ nodes[i].op = "waitUntil"
    /\ nodes[i].target = OptInContainer
    /\ elapsed > WaitforTimeout
    /\ nodes' = [nodes EXCEPT ![i].state = "failed",
                              ![i].error = Error("Timeout", i)]
    /\ UNCHANGED <<log, windowVars, waitVars, appVars, uiVars>>

ScenarioNext ==
  \/ InvokeScenario
  \/ CallWaitForStatusBar
  \/ CallSelectCollection
  \/ CallViewSampleDocuments
  \/ CallRefineSample
  \/ CallResetSample
  \/ CallSampleCollection
  \/ CallStartUsingCompass
  \/ IssuePrimitive
  \/ ResolvePrimitive
  \/ FailPrimitive
  \/ UiChange
  \/ PollElement
  \/ TimeoutElement
  \/ OptInChange
  \/ PollText
  \/ TimeoutText

SpecScenario == Init /\ [][ScenarioNext]_vars

(***************************************************************************)
(* createApplication, startApplication, stopApplication, addCommands       *)
(***************************************************************************)
\* calls of startApplication in one behaviour
MaxApps == 2
\* calls of addCommands a test makes itself on one client
MaxRegistrations == 1
\* calls of stopApplication in one behaviour
MaxStopCalls == 2

\* whether the module binds the identifier `assert`
AssertBound == FALSE

\* the message of the assertion, its backquotes written as quotes
NotFoundMessage ==
  "Release executable not found!  Did you run 'npm run prepublish'?"

\* the names addCommands registers, in the order of its addCommand calls
CommandNames ==
  << "fillOutForm", "clickConnect", "waitForWindow", "waitForSchemaWindow",
     "waitForHelpDialog", "filterHelpTopics", "startUsingCompass",
     "gotoSchemaWindow", "selectCollection", "waitForStatusBar",
     "viewSampleDocuments", "refineSample", "resetSample",
     "sampleCollection" >>

\* a registration that keeps the definitions already under that name
RegisterCommand_keep(registry, name, body) ==
  registry \cup {[name |-> name, body |-> body]}

\* client.addCommand(name, body): the definition under `name` is replaced
RegisterCommand(registry, name, body) ==
  {b \in registry : b.name # name} \cup {[name |-> name, body |-> body]}

RECURSIVE AddCommandsFrom(_, _, _)
AddCommandsFrom(registry, names, body) ==
  IF names = <<>> THEN registry
  ELSE AddCommandsFrom(RegisterCommand(registry, Head(names), body),
                       Tail(names), body)

\* addCommands(client): one addCommand for each name; `body` tells the
\* function objects of this call from those of other calls
AddCommands(registry, body) == AddCommandsFrom(registry, CommandNames, body)

\* the body of createApplication: the application it returns, or what it
\* throws
CreateApplication(prebuilt, exists) ==
  IF prebuilt THEN [thrown |-> "none", path |-> "electron-prebuilt"]
  ELSE IF ~AssertBound
    THEN [thrown |-> "ReferenceError: assert is not defined", path |-> ""]
  ELSE IF ~exists THEN [thrown |-> NotFoundMessage, path |-> ""]
  ELSE [thrown |-> "none", path |-> "executable"]

NewApp(path) ==
  [path |-> path, running |-> FALSE, registry |-> {}, registrations |-> 0,
   stops |-> 0, trace |-> <<>>]

Traced(app, event) == [app EXCEPT !.trace = Append(@, event)]

\* the application of the startApplication call in progress
Starting == Len(apps)

\* startApplication(distDir): createApplication, then app.start()
StartApplication ==
  /\ pc = "idle"
  /\ Len(callLog) < MaxApps
  /\ \E prebuilt \in BOOLEAN, exists \in BOOLEAN :
       LET r == CreateApplication(prebuilt, exists) IN
       /\ callLog' = Append(callLog, [prebuilt |-> prebuilt, exists |-> exists,
                                      thrown |-> r.thrown,
                                      started |-> r.thrown = "none"])
       /\ IF r.thrown = "none"
            THEN /\ apps' = Append(apps, Traced(NewApp(r.path), "start"))
                 /\ pc' = "starting"
            ELSE UNCHANGED <<apps, pc>>
  /\ UNCHANGED <<commandVars, yielded, stopCalls, stopArg>>

\* app.start() succeeded: the application is running
StartResolved ==
  /\ pc = "starting"
  /\ apps' = [apps EXCEPT ![Starting] =
                Traced([@ EXCEPT !.running = TRUE], "started")]
  /\ pc' = "started"
  /\ UNCHANGED <<commandVars, yielded, callLog, stopCalls, stopArg>>

\* app.start() failed: startApplication fails
StartFailed ==
  /\ pc = "starting"
  /\ apps' = [apps EXCEPT ![Starting] = Traced(@, "startFailed")]
  /\ pc' = "idle"
  /\ UNCHANGED <<commandVars, yielded, callLog, stopCalls, stopArg>>

\* the first callback registering before app.start() has resolved
StartedCallback_early ==
  /\ pc = "starting"
  /\ apps' = [apps EXCEPT ![Starting] =
                Traced(Traced([@ EXCEPT
                                 !.registry = AddCommands(@, 0),
                                 !.registrations = 0],
                              "addCommands"), "waitUntilWindowLoaded")]
  /\ pc' = "loading"
  /\ UNCHANGED <<commandVars, yielded, callLog, stopCalls, stopArg>>

\* the first callback of startApplication: addCommands(app.client), then
\* app.client.waitUntilWindowLoaded(20000) is issued
StartedCallback ==
  /\ pc = "started"
  /\ apps' = [apps EXCEPT ![Starting] =
                Traced(Traced([@ EXCEPT
                                 !.registry = AddCommands(@, 0),
                                 !.registrations = 0],
                              "addCommands"), "waitUntilWindowLoaded")]
  /\ pc' = "loading"
  /\ UNCHANGED <<commandVars, yielded, callLog, stopCalls, stopArg>>

\* waitUntilWindowLoaded resolved: the second callback yields the app
WindowLoaded ==
  /\ pc = "loading"
  /\ apps' = [apps EXCEPT ![Starting] = Traced(Traced(@, "loaded"), "yield")]
  /\ yielded' = Append(yielded, Starting)
  /\ pc' = "idle"
  /\ UNCHANGED <<commandVars, callLog, stopCalls, stopArg>>

\* waitUntilWindowLoaded failed: startApplication fails
WindowLoadFailed ==
  /\ pc = "loading"
  /\ apps' = [apps EXCEPT ![Starting] = Traced(@, "loadFailed")]
  /\ pc' = "idle"
  /\ UNCHANGED <<commandVars, yielded, callLog, stopCalls, stopArg>>

\* helpers.addCommands(this.app.client), called by a test on an app it holds
AddCommandsAgain ==
  /\ \E k \in 1..Len(yielded) :
       LET a == yielded[k] IN
       /\ apps[a].registrations < MaxRegistrations
       /\ apps' = [apps EXCEPT ![a] =
                     [@ EXCEPT
                        !.registry = AddCommands(@, apps[a].registrations + 1),
                        !.registrations = @ + 1]]
  /\ UNCHANGED <<commandVars, pc, yielded, callLog, stopCalls, stopArg>>

\* the guard of stopApplication without the isRunning() test
StopGuard_present(a) == a # 0

\* app && app.isRunning(); 0 is an absent app
StopGuard(a) == a # 0 /\ apps[a].running

\* stopApplication(app), called with nothing or with an app that was yielded
StopApplication ==
  /\ stopCalls < MaxStopCalls
  /\ \E a \in {0} \cup Range(yielded) :
       /\ stopArg' = [app |-> a,
                       running |-> IF a = 0 THEN FALSE ELSE apps[a].running]
       /\ IF StopGuard(a)
            THEN apps' = [apps EXCEPT ![a].stops = @ + 1]
            ELSE UNCHANGED apps
  /\ stopCalls' = stopCalls + 1
  /\ UNCHANGED <<commandVars, pc, yielded, callLog>>

\* app.stop() completed: the application is no longer running
StopResolved ==
  /\ \E a \in 1..Len(apps) :
       /\ apps[a].running
       /\ apps[a].stops > 0
       /\ apps' = [apps EXCEPT ![a].running = FALSE]
  /\ UNCHANGED <<commandVars, pc, yielded, callLog, stopCalls, stopArg>>

AppNext ==
  \/ StartApplication
  \/ StartResolved
  \/ StartFailed
  \/ StartedCallback
  \/ WindowLoaded
  \/ WindowLoadFailed
  \/ AddCommandsAgain
  \/ StopApplication
  \/ StopResolved

SpecApp == Init /\ [][AppNext]_vars

(***************************************************************************)
(* Vocabulary of the properties.                                           *)
(***************************************************************************)
Invoked(op) == nodes # <<>> /\ nodes[1].op = op

\* the positions of the log at which `op` was issued on `target`
Issues(op, target) ==
  {k \in 1..Len(log) : nodes[log[k]].op = op /\ nodes[log[k]].target = target}

\* the positions of the log at which any operation was issued on `target`
IssuesOn(target) == {k \in 1..Len(log) : nodes[log[k]].target = target}

\* nothing is running and nothing more can start
Quiescent ==
  nodes # <<>> /\ \A i \in 1..Len(nodes) :
                    ~Ready(i) /\ nodes[i].state # "inflight"

FailedPrimitives ==
  {i \in 1..Len(nodes) : nodes[i].state = "failed" /\ nodes[i].op \in Primitives}

InFlight == {i \in 1..Len(nodes) : nodes[i].state = "inflight"}

WaitNodes == {i \in 1..Len(nodes) : nodes[i].op = "waitUntil"}

\* the model fillOutForm was invoked with
GivenModel == nodes[1].arg.model

(***************************************************************************)
(* C1: waitForWindow on an index past the end of the handle list does not  *)
(* complete its wait before a window exists at that index: the wait is     *)
(* never resolved by a poll that read an undefined handle at index.        *)
(***************************************************************************)
C1_UndefinedNeverAccepted ==
  \A i \in WaitNodes :
    nodes[i].state = "resolved" => newWindowHandle # UndefinedHandle

(***************************************************************************)
(* C2: waitUntil resolves only by a poll that yielded true, at or before   *)
(* the timeout; it fails with Timeout only after the timeout has passed    *)
(* with every poll false; a true poll always resolves it.                  *)
(***************************************************************************)
C2_WaitUntilOutcome ==
  \A i \in WaitNodes :
    /\ nodes[i].state = "resolved" => everTrue /\ elapsed <= nodes[i].arg.ms
    /\ everTrue => nodes[i].state = "resolved"
    /\ nodes[i].state = "failed" =>
         /\ nodes[i].error = Error("Timeout", i)
         /\ ~everTrue
         /\ elapsed > nodes[i].arg.ms
         /\ polls >= 1

\* a wait that resolved at the last poll the timeout allows
C2_Witness ==
  \E i \in WaitNodes :
    /\ nodes[i].state = "resolved"
    /\ polls >= 2
    /\ elapsed = nodes[i].arg.ms

(***************************************************************************)
(* C3: waitForWindow captures the focused handle once, before the first    *)
(* poll; a poll that finds the captured handle at an existing position     *)
(* index leaves the wait pending, and a poll that finds another handle     *)
(* there completes it; every poll reads the handle list as it then is.     *)
(***************************************************************************)
C3_PollsAgainstCapturedHandle ==
  [][ /\ polls' # polls =>
           \A i \in WaitNodes :
             nodes[i].arg.index < Len(handles) =>
               /\ connectHandle' = connectHandle
               /\ nodes[i].state = "inflight"
               /\ handles[nodes[i].arg.index + 1] = connectHandle
                    => nodes'[i].state = "inflight"
               /\ handles[nodes[i].arg.index + 1] # connectHandle
                    => nodes'[i].state = "resolved"
      /\ connectHandle' # connectHandle =>
           polls = 0 /\ polls' = 0 /\ connectHandle' = current
                     /\ connectHandle = UndefinedHandle
    ]_vars

\* the wait stayed pending at a poll and completed at a later one, on an
\* index that exists
C3_Witness ==
  \E i \in WaitNodes :
    /\ nodes[i].state = "resolved"
    /\ polls >= 2
    /\ nodes[i].arg.index < Len(handles)
    /\ newWindowHandle # UndefinedHandle

(***************************************************************************)
(* C4: windowByIndex is issued only after the wait has resolved, at most   *)
(* once, with the index waitForWindow was given; when the wait times out,  *)
(* waitForWindow fails with the Timeout error, windowByIndex is never      *)
(* issued and the focused window is unchanged.                             *)
(***************************************************************************)
C4_SwitchOnlyAfterWait ==
  Invoked("waitForWindow") =>
    /\ Cardinality({k \in 1..Len(log) : nodes[log[k]].op = "windowByIndex"}) <= 1
    /\ \A k \in 1..Len(log) :
         nodes[log[k]].op = "windowByIndex" =>
           /\ nodes[log[k]].arg.index = nodes[1].arg.index
           /\ everTrue
           /\ \E i \in WaitNodes : nodes[i].state = "resolved"
    /\ \A i \in WaitNodes :
         nodes[i].state = "failed" =>
           /\ Outcome(1) = [state |-> "failed", error |-> Error("Timeout", i)]
           /\ \A k \in 1..Len(log) : nodes[log[k]].op # "windowByIndex"
           /\ current = connectHandle

\* the wait resolved after a false poll and the window was switched
C4_Witness ==
  /\ Invoked("waitForWindow")
  /\ polls >= 2
  /\ Outcome(1).state = "resolved"
  /\ current # connectHandle

(***************************************************************************)
(* C5 (as claimed): once fillOutForm(M) has run to its end without a       *)
(* failed operation, it has issued exactly one setValue, with the field's  *)
(* value, for each of hostname, port and name that is present in M,        *)
(* whatever the value, and none for a field absent from M.                 *)
(***************************************************************************)
C5_OnePerPresentField ==
  Invoked("fillOutForm") /\ Quiescent /\ FailedPrimitives = {} =>
    \A f \in {"hostname", "port", "name"} :
      /\ Cardinality(IssuesOn(InputSelector(f)))
           = IF GivenModel[f] # Undef THEN 1 ELSE 0
      /\ \A k \in IssuesOn(InputSelector(f)) :
           nodes[log[k]].op = "setValue" /\ nodes[log[k]].value = GivenModel[f]

(***************************************************************************)
(* C5 (amended): fillOutForm(M) never issues a setValue for a static field *)
(* that is absent from M or carries 0 or the empty string, never issues    *)
(* more than one for any static field, and, once it has run to its end     *)
(* without a failed operation, has issued exactly one, with the field's    *)
(* value, for each static field whose value is none of these.              *)
(***************************************************************************)
C5_OnePerTruthyField ==
  Invoked("fillOutForm") =>
    \A f \in {"hostname", "port", "name"} :
      LET skipped == GivenModel[f] \in {Undef, Num(0), Str("")} IN
      /\ Cardinality(IssuesOn(InputSelector(f))) <= 1
      /\ skipped => IssuesOn(InputSelector(f)) = {}
      /\ \A k \in IssuesOn(InputSelector(f)) :
           nodes[log[k]].op = "setValue" /\ nodes[log[k]].value = GivenModel[f]
      /\ Quiescent /\ FailedPrimitives = {} /\ ~skipped =>
           Cardinality(IssuesOn(InputSelector(f))) = 1

\* a run to the end in which an empty hostname was skipped and a port set
C5_Witness ==
  /\ Invoked("fillOutForm")
  /\ Quiescent
  /\ FailedPrimitives = {}
  /\ GivenModel["hostname"] = Str("")
  /\ GivenModel["name"] = Undef
  /\ GivenModel["port"] = Num(27018)
  /\ Cardinality(Issues("setValue", InputSelector("port"))) = 1

(***************************************************************************)
(* C6: fillOutForm(M) issues nothing on the authentication select or the   *)
(* authentication sub-fields when M.authentication is absent or 'NONE',    *)
(* and nothing on the ssl select or the four ssl fields when M.ssl is      *)
(* absent or 'NONE', whatever values M carries for the sub-fields.         *)
(***************************************************************************)
C6_NoneSelectsNothing ==
  Invoked("fillOutForm") =>
    /\ GivenModel["authentication"] \in {Undef, Str("NONE")} =>
         \A t \in {"select[name=authentication]",
                   "input[name=mongodb_username]",
                   "input[name=mongodb_password]"} : IssuesOn(t) = {}
    /\ GivenModel["ssl"] \in {Undef, Str("NONE")} =>
         \A t \in {"select[name=ssl]", "input[name=ssl_ca]",
                   "input[name=ssl_certificate]",
                   "input[name=ssl_private_key]",
                   "input[name=ssl_private_key_password]"} : IssuesOn(t) = {}

\* a finished run on a model that says 'NONE' twice and carries sub-fields
C6_Witness ==
  /\ Invoked("fillOutForm")
  /\ Quiescent
  /\ GivenModel["authentication"] = Str("NONE")
  /\ GivenModel["mongodb_username"] = Str("u")
  /\ GivenModel["ssl"] = Str("NONE")
  /\ GivenModel["ssl_ca"] = Str("pem")
  /\ GivenModel["ssl_private_key_password"] = Str("pem")
  /\ Len(log) >= 2
  /\ Outcome(1).state = "resolved"

(***************************************************************************)
(* C7: once fillOutForm(M), for M.authentication present and not 'NONE',   *)
(* has run to its end without a failed operation, it has resolved, having  *)
(* issued the authentication select with M.authentication and then one     *)
(* setValue for each dependent field of that kind that M carries.          *)
(***************************************************************************)
C7_AuthenticationFilled ==
  /\ Invoked("fillOutForm")
  /\ GivenModel["authentication"] \notin {Undef, Str("NONE")}
  /\ Quiescent
  /\ FailedPrimitives = {}
  => /\ Outcome(1).state = "resolved"
     /\ \E k \in Issues("selectByValue", "select[name=authentication]") :
          /\ nodes[log[k]].value = GivenModel["authentication"]
          /\ \A f \in Range(getFieldNames(GivenModel["authentication"])) :
               GivenModel[f] \notin {Undef, Num(0), Str("")} =>
                 \E l \in Issues("setValue", InputSelector(f)) : l > k

(***************************************************************************)
(* C8: the operations of one fillOutForm are issued in the order hostname, *)
(* port, name, authentication select, authentication sub-fields, ssl       *)
(* select, ssl_ca, ssl_certificate, ssl_private_key,                       *)
(* ssl_private_key_password; each is issued only after the one before it   *)
(* has resolved; the command resolves only after all of them have.         *)
(***************************************************************************)
ListPosition(target) ==
  CASE target = "input[name=hostname]" -> 1
    [] target = "input[name=port]" -> 2
    [] target = "input[name=name]" -> 3
    [] target = "select[name=authentication]" -> 4
    [] target = "input[name=mongodb_username]" -> 5
    [] target = "input[name=mongodb_password]" -> 6
    [] target = "select[name=ssl]" -> 7
    [] target = "input[name=ssl_ca]" -> 8
    [] target = "input[name=ssl_certificate]" -> 9
    [] target = "input[name=ssl_private_key]" -> 10
    [] target = "input[name=ssl_private_key_password]" -> 11
    [] OTHER -> 0

C8_ListOrder ==
  Invoked("fillOutForm") =>
    /\ \A k, l \in 1..Len(log) :
         k < l => /\ ListPosition(nodes[log[k]].target)
                       < ListPosition(nodes[log[l]].target)
                  /\ nodes[log[k]].state = "resolved"
    /\ \A k \in 1..Len(log) : ListPosition(nodes[log[k]].target) > 0
    /\ Outcome(1).state = "resolved" =>
         \A i \in 2..Len(nodes) :
           nodes[i].state = "resolved" /\ \E k \in 1..Len(log) : log[k] = i

\* a resolved fillOutForm that issued static fields, the ssl select and ssl
\* fields
C8_Witness ==
  /\ Invoked("fillOutForm")
  /\ Outcome(1).state = "resolved"
  /\ Len(log) >= 6
  /\ Issues("setValue", InputSelector("port")) # {}
  /\ Issues("selectByValue", "select[name=ssl]") # {}

(***************************************************************************)
(* C9: when an operation issued by a command sequence has failed, it is    *)
(* the last operation the sequence issued, and the result of the sequence  *)
(* has failed with that operation's error.                                 *)
(***************************************************************************)
C9_FailFast ==
  \A i \in FailedPrimitives :
    /\ log[Len(log)] = i
    /\ Outcome(1) = [state |-> "failed", error |-> nodes[i].error]

(***************************************************************************)
(* C10: within one command invocation, nested commands included, at most   *)
(* one primitive operation or polling wait is in flight at any time, also  *)
(* after the command has failed while building its chain.                  *)
(***************************************************************************)
C10_OneInFlight == Cardinality(InFlight) <= 1

\* gotoSchemaWindow has failed in the body of fillOutForm and a step that
\* body had already chained is in flight
C10_Witness ==
  /\ Invoked("gotoSchemaWindow")
  /\ Outcome(1).state = "failed"
  /\ InFlight # {}
  /\ Len(log) >= 2

(***************************************************************************)
(* C11: registering a name that is already registered on a client replaces *)
(* its definition: after any number of addCommands calls on one client,    *)
(* each command name has exactly one definition there, that of the most    *)
(* recent call.                                                            *)
(***************************************************************************)
C11_LastRegistrationWins ==
  \A a \in 1..Len(apps) :
    apps[a].registry # {} =>
      \A name \in {"fillOutForm", "clickConnect", "waitForWindow",
                   "waitForSchemaWindow", "waitForHelpDialog",
                   "filterHelpTopics", "startUsingCompass",
                   "gotoSchemaWindow", "selectCollection", "waitForStatusBar",
                   "viewSampleDocuments", "refineSample", "resetSample",
                   "sampleCollection"} :
        {b \in apps[a].registry : b.name = name}
          = {[name |-> name, body |-> apps[a].registrations]}

\* a client on which addCommands has been called a second time
C11_Witness ==
  \E a \in 1..Len(apps) :
    /\ apps[a].registrations = 1
    /\ Cardinality(apps[a].registry) = 14

(***************************************************************************)
(* C18: a startApplication call without TEST_WITH_PREBUILT fails, when the *)
(* release executable does not exist, before the application is started,   *)
(* with the message that tells to build first; when the executable exists  *)
(* the check does not fail and the application is started.                 *)
(***************************************************************************)
C18_ExecutableCheck ==
  \A k \in 1..Len(callLog) :
    ~callLog[k].prebuilt =>
      IF callLog[k].exists
        THEN callLog[k].thrown = "none" /\ callLog[k].started
        ELSE /\ callLog[k].thrown
                  = "Release executable not found!  Did you run 'npm run prepublish'?"
             /\ ~callLog[k].started

(***************************************************************************)
(* C19: startApplication registers the commands only after app.start() has *)
(* resolved and before it begins to wait for the window to load, and       *)
(* yields the app only after that wait has resolved; an app whose start or *)
(* whose wait failed is never yielded.                                     *)
(***************************************************************************)
FirstAt(trace, event) ==
  IF \E k \in 1..Len(trace) : trace[k] = event
    THEN CHOOSE k \in 1..Len(trace) :
           trace[k] = event /\ \A j \in 1..(k - 1) : trace[j] # event
    ELSE 0

C19_StartOrder ==
  \A a \in 1..Len(apps) :
    LET t == apps[a].trace IN
    /\ FirstAt(t, "addCommands") > 0 =>
         /\ FirstAt(t, "started") > 0
         /\ FirstAt(t, "started") < FirstAt(t, "addCommands")
    /\ FirstAt(t, "waitUntilWindowLoaded") > 0 =>
         /\ FirstAt(t, "addCommands") > 0
         /\ FirstAt(t, "addCommands") < FirstAt(t, "waitUntilWindowLoaded")
    /\ a \in Range(yielded) =>
         /\ FirstAt(t, "waitUntilWindowLoaded") > 0
         /\ FirstAt(t, "waitUntilWindowLoaded") < FirstAt(t, "loaded")
         /\ apps[a].registry # {}
    /\ FirstAt(t, "startFailed") > 0 \/ FirstAt(t, "loadFailed") > 0 =>
         a \notin Range(yielded)

\* one app was yielded after its window loaded, the wait of another failed
C19_Witness ==
  /\ Len(yielded) = 1
  /\ \E a \in 1..Len(apps) : FirstAt(apps[a].trace, "loadFailed") > 0

(***************************************************************************)
(* C20: a call of stopApplication issues app.stop() exactly once when its  *)
(* app is present and running, and issues nothing when the app is absent   *)
(* or not running; stop is issued by no other step.                        *)
(***************************************************************************)
C20_StopOnlyRunning ==
  [][ /\ Len(apps') = Len(apps) =>
           \A b \in 1..Len(apps) :
             apps'[b].stops # apps[b].stops =>
               /\ stopCalls' = stopCalls + 1
               /\ stopArg'.app = b
               /\ apps[b].running
               /\ apps'[b].stops = apps[b].stops + 1
      /\ stopCalls' # stopCalls =>
           /\ Len(apps') = Len(apps)
           /\ stopArg'.app # 0 =>
                (apps[stopArg'.app].running
                   <=> apps'[stopArg'.app].stops = apps[stopArg'.app].stops + 1)
    ]_vars

\* the last call of stopApplication was given an app that had been stopped
C20_Witness ==
  /\ stopArg.app # 0
  /\ ~stopArg.running
  /\ apps[stopArg.app].stops = 1

(***************************************************************************)
(* C12: the model gotoSchemaWindow hands to fillOutForm has hostname       *)
(* 'localhost' and port 27017 where the caller's connection left the key   *)
(* undefined, and the caller's value for every key the caller defined;     *)
(* fillOutForm itself applies no default: what it sets is what it is given.*)
(***************************************************************************)
C12_DefaultsOnlyUndefined ==
  Invoked("gotoSchemaWindow") =>
    \A i \in 1..Len(nodes) :
      nodes[i].op = "fillOutForm" =>
        LET given == nodes[1].arg.model
            handed == nodes[i].arg.model
        IN  \A f \in DOMAIN handed :
              /\ given[f] # Undef => handed[f] = given[f]
              /\ given[f] = Undef =>
                   handed[f] = CASE f = "hostname" -> Str("localhost")
                                 [] f = "port" -> Num(27017)
                                 [] OTHER -> Undef
              /\ \A k \in IssuesOn("input[name=" \o f \o "]") :
                   /\ nodes[log[k]].value = handed[f]
                   /\ handed[f] \notin {Undef, Num(0), Str("")}

\* the caller gave an empty hostname and no port: the port was set to the
\* default, the hostname was left alone, and connect was clicked
C12_Witness ==
  /\ Invoked("gotoSchemaWindow")
  /\ nodes[1].arg.model["hostname"] = Str("")
  /\ nodes[1].arg.model["port"] = Undef
  /\ \E k \in Issues("setValue", "input[name=port]") :
       nodes[log[k]].value = Num(27017)
  /\ Issues("setValue", "input[name=hostname]") = {}
  /\ Issues("click", "button[name=connect]") # {}

(***************************************************************************)
(* C13: gotoSchemaWindow({}) issues, in this order and each only after the *)
(* one before it has resolved, the wait for select[name=authentication],   *)
(* setValue of hostname 'localhost', setValue of port 27017, the click on  *)
(* button[name=connect] and the wait for a window at slot 0; it resolves   *)
(* only after a poll has found at slot 0 a window handle that is not the   *)
(* connect window's.                                                       *)
(***************************************************************************)
SchemaSteps ==
  << [op |-> "waitForVisible", target |-> "select[name=authentication]",
      value |-> Undef],
     [op |-> "setValue", target |-> "input[name=hostname]",
      value |-> Str("localhost")],
     [op |-> "setValue", target |-> "input[name=port]", value |-> Num(27017)],
     [op |-> "click", target |-> "button[name=connect]", value |-> Undef],
     [op |-> "windowHandle", target |-> "", value |-> Undef],
     [op |-> "waitUntil", target |-> "", value |-> Undef],
     [op |-> "windowByIndex", target |-> "", value |-> Undef] >>

C13_SchemaWindowOrder ==
  Invoked("gotoSchemaWindow") /\ nodes[1].arg.model = [f \in Fields |-> Undef]
  => /\ Len(log) <= Len(SchemaSteps)
     /\ \A k \in 1..Len(log) :
          /\ nodes[log[k]].op = SchemaSteps[k].op
          /\ nodes[log[k]].target = SchemaSteps[k].target
          /\ nodes[log[k]].value = SchemaSteps[k].value
          /\ k < Len(log) => nodes[log[k]].state = "resolved"
          /\ nodes[log[k]].op \in {"waitUntil", "windowByIndex"} =>
               nodes[log[k]].arg.index = 0
     /\ Outcome(1).state = "resolved" =>
          /\ Len(log) = Len(SchemaSteps)
          /\ everTrue
          /\ newWindowHandle # connectHandle
          /\ newWindowHandle # UndefinedHandle

\* gotoSchemaWindow({}) resolved
C13_Witness ==
  /\ Invoked("gotoSchemaWindow")
  /\ nodes[1].arg.model = [f \in Fields |-> Undef]
  /\ Outcome(1).state = "resolved"
  /\ polls >= 2

\* the accepting observations of the wait at position k of the log
AcceptedAt(k) == {a \in 1..Len(observed) : observed[a].node = log[k]}

\* the positions of the log at which a click or a setValue was issued
Actions == {k \in 1..Len(log) : nodes[log[k]].op \in {"click", "setValue"}}

(***************************************************************************)
(* C14: sampleCollection clicks the sidebar item only after a wait has     *)
(* found that item to exist; it resolves only after a wait issued after    *)
(* the click has found #statusbar visible, within ms, and a later wait has *)
(* found it not visible; a wait for #statusbar that runs out of time makes *)
(* the command fail with a timeout.                                        *)
(***************************************************************************)
C14_SampleCycle ==
  Invoked("sampleCollection") =>
    LET given == nodes[1].arg.timeout
        ms == IF given \in {Undef, Num(0)} THEN 10000 ELSE given.num
    IN
    /\ \A k \in Actions :
         \E j \in 1..(k - 1) :
           /\ nodes[log[j]].op = "waitForExist"
           /\ nodes[log[j]].target = nodes[log[k]].target
           /\ nodes[log[j]].state = "resolved"
           /\ \E a \in AcceptedAt(j) : observed[a].found
    /\ Outcome(1).state = "resolved" =>
         \E c \in Actions, j, k \in 1..Len(log) :
           /\ c < j /\ j < k
           /\ nodes[log[j]].target = "#statusbar"
           /\ nodes[log[k]].target = "#statusbar"
           /\ \E a \in AcceptedAt(j), b \in AcceptedAt(k) :
                /\ a < b
                /\ observed[a].found /\ observed[a].at <= ms
                /\ ~observed[b].found
    /\ \A k \in 1..Len(log) :
         /\ nodes[log[k]].target = "#statusbar"
         /\ nodes[log[k]].error.name = "Timeout"
         => /\ AcceptedAt(k) = {}
            /\ waited > ms
            /\ Outcome(1).state = "failed"
            /\ Outcome(1).error.name = "Timeout"

\* sampleCollection('db.coll', false, 5000) resolved, and the busy indicator
\* was not yet visible at the first look after the click
C14_Witness ==
  /\ Invoked("sampleCollection")
  /\ nodes[1].arg.name = Str("db.coll")
  /\ nodes[1].arg.internal = Bool(FALSE)
  /\ nodes[1].arg.timeout = Num(5000)
  /\ Outcome(1).state = "resolved"
  /\ \E a \in 1..Len(observed) :
       /\ nodes[observed[a].node].target = "#statusbar"
       /\ observed[a].found /\ observed[a].at > 0

(***************************************************************************)
(* C15: selectCollection, viewSampleDocuments, refineSample and            *)
(* resetSample issue no click and no setValue before the wait for          *)
(* div#statusbar has found it not visible and resolved; when that wait     *)
(* runs out of time the command fails and no click or setValue is issued.  *)
(***************************************************************************)
C15_StatusBarFirst ==
  /\ nodes # <<>>
  /\ nodes[1].op \in {"selectCollection", "viewSampleDocuments",
                      "refineSample", "resetSample"}
  => /\ \A k \in Actions :
          \E j \in 1..(k - 1) :
            /\ nodes[log[j]].op = "waitForVisible"
            /\ nodes[log[j]].target = "div#statusbar"
            /\ nodes[log[j]].state = "resolved"
            /\ \E a \in AcceptedAt(j) : ~observed[a].found
     /\ \A k \in 1..Len(log) :
          /\ nodes[log[k]].target = "div#statusbar"
          /\ nodes[log[k]].error.name = "Timeout"
          => /\ Actions = {}
             /\ Outcome(1).state = "failed"
             /\ Outcome(1).error.name = "Timeout"

\* refineSample set the filter after the busy indicator, visible at the
\* first looks, had cleared
C15_Witness ==
  /\ Invoked("refineSample")
  /\ Issues("setValue", "input#refine_input") # {}
  /\ Issues("click", "button#apply_button") # {}
  /\ \E a \in 1..Len(observed) :
       /\ nodes[observed[a].node].target = "div#statusbar"
       /\ ~observed[a].found /\ observed[a].at > 0

(***************************************************************************)
(* C16: startUsingCompass starts polling the text of the opt-in container  *)
(* only after the click on the tour-close button, the click on the start   *)
(* button and a wait that found the start button not visible have          *)
(* resolved, in that order; it resolves only after a poll has returned the *)
(* empty text.                                                             *)
(***************************************************************************)
C16_OptInOrder ==
  Invoked("startUsingCompass") =>
    /\ \A k \in Issues("waitUntil", "div[data-hook=optin-container]") :
         \E c \in Issues("click", "button.tour-close-button"),
            d \in Issues("click", "button[data-hook=start-button]"),
            w \in Issues("waitForVisible", "button[data-hook=start-button]") :
           /\ c < d /\ d < w /\ w < k
           /\ \A j \in {c, d, w} : nodes[log[j]].state = "resolved"
           /\ \E a \in AcceptedAt(w) : ~observed[a].found
    /\ Outcome(1).state = "resolved" => polls > 0 /\ lastText = ""
    /\ polls > 0 /\ lastText # "" => Outcome(1).state # "resolved"

\* startUsingCompass resolved after a poll that returned a non-empty text
C16_Witness ==
  /\ Invoked("startUsingCompass")
  /\ Outcome(1).state = "resolved"
  /\ polls >= 2

(***************************************************************************)
(* C17: sampleCollection waits for and clicks the sidebar item whose title *)
(* is the name followed by ' (internal collection)' when internal is true, *)
(* and the name alone when internal is false or absent; the wait and the   *)
(* click use the same selector.                                            *)
(***************************************************************************)
C17_InternalSuffix ==
  Invoked("sampleCollection") =>
    LET name == nodes[1].arg.name.str
        title == IF nodes[1].arg.internal = Bool(TRUE)
                   THEN name \o " (internal collection)"
                   ELSE name
        item == ".sidebar .list-group-item span[title=\"" \o title \o "\"]"
    IN  \A k \in 1..Len(log) :
          nodes[log[k]].op \in {"waitForExist", "click"} =>
            nodes[log[k]].target = item

\* sampleCollection('local.startup_log', true) clicked the item titled
\* 'local.startup_log (internal collection)'
C17_Witness ==
  /\ Invoked("sampleCollection")
  /\ nodes[1].arg.internal = Bool(TRUE)
  /\ Issues("waitForExist", ".sidebar .list-group-item span[title=\"local.startup_log (internal collection)\"]") # {}
  /\ Issues("click", ".sidebar .list-group-item span[title=\"local.startup_log (internal collection)\"]") # {}

====
